---- MODULE Spec2Model ----
(***************************************************************************)
(* Worker hardening of the PVF workers                                     *)
(* (polkadot/node/core/pvf/common/src/worker/security.rs):                 *)
(*   - unshare_user_namespace_and_change_root: the nine system calls that  *)
(*     move the process into new namespaces and swap its root,             *)
(*   - landlock::try_restrict / get_status: the filesystem ruleset and its *)
(*     probe,                                                              *)
(*   - remove_env_vars: the scrubbing of the environment,                  *)
(*   - LandlockStatus::from_ruleset_status: the translation of a status,   *)
(* together with the Linux behaviour those calls rely on (namespaces,      *)
(* mounts, pivot_root, Landlock domains), which is modelled as far as the  *)
(* code depends on it; and the migration of the storage of the deleted DMP *)
(* pallet (cumulus/pallets/dmp-queue/src/migration.rs): migrate_page and   *)
(* migrate_overweight.                                                     *)
(***************************************************************************)
EXTENDS Integers, Sequences, FiniteSets, TLC

(***************************************************************************)
(* Bounds of the model.                                                    *)
(***************************************************************************)
\* How many times unshare_user_namespace_and_change_root is invoked in one process.
MaxCalls == 2

(***************************************************************************)
(* Paths.  A path is the sequence of its components; <<>> is "/".          *)
(***************************************************************************)
IsPrefix(a, b) == Len(a) <= Len(b) /\ SubSeq(b, 1, Len(a)) = a

\* The worker directories the spawning process may hand to the worker; the name
\* "xFF" stands for a name that is not valid UTF-8.
WorkerDirs == { <<"var", "worker-7">>, <<"w">>, <<"xFF">> }

\* The 10 random alphanumeric characters of a call, drawn from a small alphabet.
Tokens == { "aaaaaaaaaa", "bbbbbbbbbb" }

\* format!("oldroot-{}", s): the name of the staging directory.
OldrootName(s) == "oldroot-" \o s

\* format!("{}/oldroot-{}", worker_dir_path_str, s)
OldrootRelative(wd, s) == Append(wd, OldrootName(s))

\* format!("/oldroot-{}", s)
OldrootAbsolute(s) == << OldrootName(s) >>

\* What exists on the host before the worker starts, besides the worker directory.
HostEntries == { <<>>, <<"etc">>, <<"etc", "passwd">>, <<"var">>, <<"home">> }

\* The worker directory as the spawning process prepares it.
WorkerEntries(wd) == { wd, Append(wd, "payload.wasm") }

VARIABLES
    workerDir,  \* worker_dir_path of this process
    entries,    \* the directories and files that exist, by their path on the host
    kern,       \* the kernel's state of this process: namespaces, mounts, root, cwd
    pc,         \* position inside unshare_user_namespace_and_change_root ("idle" outside)
    token,      \* the random string s of the call in progress
    caller,     \* who made the call in progress
    trace,      \* the system calls the call in progress has attempted, in order,
                \* each with whether it succeeded
    log,        \* the completed calls: their result, the system calls attempted, the
                \* caller and the random string
    orch        \* position of the worker's startup sequence

isoVars == << workerDir, entries, kern, pc, token, caller, trace, log, orch >>

VARIABLES
    kernelAbi,  \* the Landlock ABI the host kernel supports (0: none)
    thr,        \* the state of each thread
    domain,     \* the Landlock domain of each thread
    probeOf,    \* for a probe thread, the thread that called get_status
    ret,        \* the value each thread's closure returned, and get_status to its caller
    lastAccess, \* the filesystem operation made since the domains last changed, if
                \* any: thread, operation, path, result
    restricts,  \* how many times Restrict has called try_restrict
    asked,      \* the access rights the last try_restrict asked the kernel to handle
    checked,    \* the last call of status_is_fully_enabled: its argument and its value
    reported    \* the last call of LandlockStatus::from_ruleset_status: its argument
                \* and its value

llVars ==
    << kernelAbi, thr, domain, probeOf, ret, lastAccess, restricts, asked, checked,
       reported >>

VARIABLES
    env,        \* the environment of the process: its entries (key, value), in order
    envBefore,  \* the environment when remove_env_vars was called
    warned,     \* the warnings remove_env_vars has logged, in order
    scrub       \* remove_env_vars: "none" (not called), "returned" or "panicked"

envVars == << env, envBefore, warned, scrub >>

VARIABLES
    pages,      \* the old storage map Pages: page index -> messages (block, msg)
    overweight, \* the old storage map Overweight: index -> message (block, msg)
    sink,       \* the messages T::DmpSink::handle_message has received, in order
    migrated    \* the last call of migrate_page or migrate_overweight: its index,
                \* what it took from the storage, the sink before it and the
                \* errors it logged

dmpVars == << pages, overweight, sink, migrated >>

vars == << isoVars, llVars, envVars, dmpVars >>

(***************************************************************************)
(* The kernel, as far as the nine system calls depend on it.               *)
(*   userNs       how many user namespaces the process has entered         *)
(*   euidMapped   the effective uid has a mapping in the current user      *)
(*                namespace (the code never writes uid_map, so not after   *)
(*                CLONE_NEWUSER)                                           *)
(*   capSysAdmin  CAP_SYS_ADMIN over the current mount namespace           *)
(*   mntNs        how many mount namespaces the process has entered        *)
(*   rootShared   the root mount has shared propagation                    *)
(*   bindMounts   the host paths that are bind mount points                *)
(*   root, cwd    root and working directory, by their path on the host    *)
(*   oldroot      "none", "mounted" (the old root is mounted at oldrootAt) *)
(*                or "detached" (lazily unmounted)                         *)
(***************************************************************************)
\* The path on the host that the absolute path p of the process names.
Resolve(k, p) ==
    LET q == k.root \o p
    IN  IF k.oldroot = "mounted" /\ IsPrefix(k.oldrootAt, q)
        THEN SubSeq(q, Len(k.oldrootAt) + 1, Len(q))
        ELSE q

\* Whether path p of the process is the mount point of the old root.
IsOldrootMountPoint(k, p) == k.oldroot = "mounted" /\ k.root \o p = k.oldrootAt

Parent(h) == SubSeq(h, 1, Len(h) - 1)

HasChildren(es, h) == \E e \in es : e # h /\ IsPrefix(h, e)

\* unshare(CLONE_NEWUSER): EPERM when the caller's effective uid has no mapping
\* in the user namespace it is in.
CanUnshareUser(k) == k.euidMapped
DoUnshareUser(k) ==
    [k EXCEPT !.userNs = @ + 1, !.euidMapped = FALSE, !.capSysAdmin = TRUE]

\* unshare(CLONE_NEWNS): needs CAP_SYS_ADMIN.
CanUnshareMount(k) == k.capSysAdmin
DoUnshareMount(k) == [k EXCEPT !.mntNs = @ + 1]

\* mount(NULL, "/", NULL, MS_REC | MS_PRIVATE, NULL)
CanMountPrivate(k) == k.capSysAdmin
DoMountPrivate(k) == [k EXCEPT !.rootShared = FALSE]

\* mount(dir, dir, NULL, MS_BIND | MS_REC | MS_NOEXEC | MS_NODEV | MS_NOSUID, NULL)
CanMountBind(k, es, dir) == k.capSysAdmin /\ Resolve(k, dir) \in es
DoMountBind(k, dir) == [k EXCEPT !.bindMounts = @ \cup {Resolve(k, dir)}]

\* mkdir(path, 0755): EEXIST when the entry exists, ENOENT without the parent.
CanMkdir(k, es, path) ==
    /\ path # <<>>
    /\ Resolve(k, path) \notin es
    /\ Parent(Resolve(k, path)) \in es
DoMkdir(k, es, path) == es \cup {Resolve(k, path)}

\* pivot_root(new_root, put_old): new_root must be a mount point, put_old a
\* directory at or underneath new_root, and the current root mount not shared.
CanPivotRoot(k, es, newRoot, putOld) ==
    /\ k.capSysAdmin
    /\ k.oldroot # "mounted"
    /\ ~k.rootShared
    /\ Resolve(k, newRoot) \in k.bindMounts
    /\ Resolve(k, newRoot) # k.root
    /\ Resolve(k, putOld) \in es
    /\ IsPrefix(Resolve(k, newRoot), Resolve(k, putOld))
\* The root becomes new_root, the old root is mounted at put_old, and a working
\* directory that was the old root moves to the new root.
DoPivotRoot(k, newRoot, putOld) ==
    [k EXCEPT !.root = Resolve(k, newRoot),
              !.cwd = IF k.cwd = k.root THEN Resolve(k, newRoot) ELSE k.cwd,
              !.oldroot = "mounted",
              !.oldrootAt = Resolve(k, putOld)]

\* chdir(path)
CanChdir(k, es, path) == IsOldrootMountPoint(k, path) \/ Resolve(k, path) \in es
DoChdir(k, path) == [k EXCEPT !.cwd = Resolve(k, path)]

\* umount2(path, MNT_DETACH): EINVAL when path is not a mount point.
CanUmount2(k, path) == k.capSysAdmin /\ IsOldrootMountPoint(k, path)
DoUmount2(k, path) == [k EXCEPT !.oldroot = "detached"]

\* rmdir(path): EBUSY on a mount point, ENOTEMPTY on a directory with entries.
CanRmdir(k, es, path) ==
    /\ path # <<>>
    /\ ~IsOldrootMountPoint(k, path)
    /\ Resolve(k, path) \in es
    /\ ~HasChildren(es, Resolve(k, path))
DoRmdir(k, es, path) == es \ {Resolve(k, path)}

(***************************************************************************)
(* unshare_user_namespace_and_change_root                                  *)
(***************************************************************************)
StepNames ==
    { "unshare_user", "unshare_mount", "mount_private", "mount_bind",
      "mkdir_oldroot", "pivot_root", "chdir", "umount2", "rmdir" }

\* A variant of NextStep: the working directory is changed after the old root is
\* unmounted.
NextStepChdirAfterUmount(step) ==
    CASE step = "entry"         -> "unshare_user"
      [] step = "unshare_user"  -> "unshare_mount"
      [] step = "unshare_mount" -> "mount_private"
      [] step = "mount_private" -> "mount_bind"
      [] step = "mount_bind"    -> "mkdir_oldroot"
      [] step = "mkdir_oldroot" -> "pivot_root"
      [] step = "pivot_root"    -> "umount2"
      [] step = "umount2"       -> "chdir"
      [] step = "chdir"         -> "rmdir"
      [] step = "rmdir"         -> "return"

\* A variant of NextStep: the working directory is not changed.
NextStepWithoutChdir(step) ==
    CASE step = "entry"         -> "unshare_user"
      [] step = "unshare_user"  -> "unshare_mount"
      [] step = "unshare_mount" -> "mount_private"
      [] step = "mount_private" -> "mount_bind"
      [] step = "mount_bind"    -> "mkdir_oldroot"
      [] step = "mkdir_oldroot" -> "pivot_root"
      [] step = "pivot_root"    -> "umount2"
      [] step = "umount2"       -> "rmdir"
      [] step = "rmdir"         -> "return"

\* A variant of NextStep: the mount namespace is unshared before the user namespace.
NextStepMountNsFirst(step) ==
    CASE step = "entry"         -> "unshare_mount"
      [] step = "unshare_mount" -> "unshare_user"
      [] step = "unshare_user"  -> "mount_private"
      [] step = "mount_private" -> "mount_bind"
      [] step = "mount_bind"    -> "mkdir_oldroot"
      [] step = "mkdir_oldroot" -> "pivot_root"
      [] step = "pivot_root"    -> "chdir"
      [] step = "chdir"         -> "umount2"
      [] step = "umount2"       -> "rmdir"
      [] step = "rmdir"         -> "return"

\* A variant of NextStep: the function returns after umount2, without the rmdir.
NextStepWithoutRmdir(step) ==
    CASE step = "entry"         -> "unshare_user"
      [] step = "unshare_user"  -> "unshare_mount"
      [] step = "unshare_mount" -> "mount_private"
      [] step = "mount_private" -> "mount_bind"
      [] step = "mount_bind"    -> "mkdir_oldroot"
      [] step = "mkdir_oldroot" -> "pivot_root"
      [] step = "pivot_root"    -> "chdir"
      [] step = "chdir"         -> "umount2"
      [] step = "umount2"       -> "return"
      [] step = "rmdir"         -> "return"

\* A variant of NextStep: the staging directory is not created, the root is
\* swapped onto whatever has its name.
NextStepWithoutMkdir(step) ==
    CASE step = "entry"         -> "unshare_user"
      [] step = "unshare_user"  -> "unshare_mount"
      [] step = "unshare_mount" -> "mount_private"
      [] step = "mount_private" -> "mount_bind"
      [] step = "mount_bind"    -> "pivot_root"
      [] step = "mkdir_oldroot" -> "pivot_root"
      [] step = "pivot_root"    -> "chdir"
      [] step = "chdir"         -> "umount2"
      [] step = "umount2"       -> "rmdir"
      [] step = "rmdir"         -> "return"

\* The system call that follows each system call of the unsafe block ("entry": the
\* first one; "return": the Ok(()) after the block).
NextStep(step) ==
    CASE step = "entry"         -> "unshare_user"
      [] step = "unshare_user"  -> "unshare_mount"
      [] step = "unshare_mount" -> "mount_private"
      [] step = "mount_private" -> "mount_bind"
      [] step = "mount_bind"    -> "mkdir_oldroot"
      [] step = "mkdir_oldroot" -> "pivot_root"
      [] step = "pivot_root"    -> "chdir"
      [] step = "chdir"         -> "umount2"
      [] step = "umount2"       -> "rmdir"
      [] step = "rmdir"         -> "return"

\* A variant of ErrOf: both unshare calls return the same string.
ErrOfUnshareMerged(step) ==
    CASE step = "unshare_user"  -> "unshare"
      [] step = "unshare_mount" -> "unshare"
      [] step = "mount_private" -> "mount MS_PRIVATE"
      [] step = "mount_bind"    -> "mount MS_BIND"
      [] step = "mkdir_oldroot" -> "mkdir oldroot"
      [] step = "pivot_root"    -> "pivot_root"
      [] step = "chdir"         -> "chdir to new root"
      [] step = "umount2"       -> "umount2 the oldroot"
      [] step = "rmdir"         -> "rmdir the oldroot"

\* The &'static str each failing system call returns.
ErrOf(step) ==
    CASE step = "unshare_user"  -> "unshare user namespace"
      [] step = "unshare_mount" -> "unshare mount namespace"
      [] step = "mount_private" -> "mount MS_PRIVATE"
      [] step = "mount_bind"    -> "mount MS_BIND"
      [] step = "mkdir_oldroot" -> "mkdir oldroot"
      [] step = "pivot_root"    -> "pivot_root"
      [] step = "chdir"         -> "chdir to new root"
      [] step = "umount2"       -> "umount2 the oldroot"
      [] step = "rmdir"         -> "rmdir the oldroot"

ErrNotUtf8 == "worker dir path is not valid UTF-8"

\* A variant of After: a failure to remove the staging directory is not returned.
AfterIgnoringRmdirFailure(step, ok) ==
    IF ~ok /\ step # "rmdir" THEN [pc |-> "return", result |-> ErrOf(step)]
    ELSE IF NextStep(step) = "return" THEN [pc |-> "return", result |-> "Ok"]
    ELSE [pc |-> NextStep(step), result |-> "none"]

\* A variant of After: a staging directory that cannot be created is taken to be
\* there already, and the call goes on.
AfterIgnoringMkdirFailure(step, ok) ==
    IF ~ok /\ step # "mkdir_oldroot" THEN [pc |-> "return", result |-> ErrOf(step)]
    ELSE IF NextStep(step) = "return" THEN [pc |-> "return", result |-> "Ok"]
    ELSE [pc |-> NextStep(step), result |-> "none"]

\* `if libc::f(..) < 0 { return Err(..) }`, and the Ok(()) after the last call:
\* where control goes after a system call, and what the function returns.
After(step, ok) ==
    IF ~ok THEN [pc |-> "return", result |-> ErrOf(step)]
    ELSE IF NextStep(step) = "return" THEN [pc |-> "return", result |-> "Ok"]
    ELSE [pc |-> NextStep(step), result |-> "none"]

(***************************************************************************)
(* Landlock.  A ruleset is [handled, rules, status]: the access rights it  *)
(* handles (denied unless a rule grants them), its path-beneath rules      *)
(* [path, access], and the status the crate reports for it.  The domain of *)
(* a thread is the sequence of the rulesets it has been restricted with.   *)
(***************************************************************************)
\* The Landlock ABI versions a host kernel may support; 0 is a kernel without Landlock.
KernelAbis == { 0, 1, 2 }

\* pub const LANDLOCK_ABI: ABI = ABI::V1
LANDLOCK_ABI == 1

\* AccessFs::from_read(abi)
AccessFsFromRead(abi) == IF abi >= 1 THEN { "Execute", "ReadFile", "ReadDir" } ELSE {}

\* AccessFs::from_write(abi)
AccessFsFromWrite(abi) ==
    (IF abi >= 1
     THEN { "WriteFile", "RemoveDir", "RemoveFile", "MakeChar", "MakeDir",
            "MakeReg", "MakeSock", "MakeFifo", "MakeBlock", "MakeSym" }
     ELSE {})
    \cup (IF abi >= 2 THEN { "Refer" } ELSE {})
    \cup (IF abi >= 3 THEN { "Truncate" } ELSE {})

\* AccessFs::from_all(abi)
AccessFsFromAll(abi) == AccessFsFromRead(abi) \cup AccessFsFromWrite(abi)

\* The rights that make sense on a file that is not a directory.
AccessFile == { "Execute", "WriteFile", "ReadFile", "Truncate" }

AllRights == UNION { AccessFsFromAll(abi) : abi \in KernelAbis }

\* The files of the tests: two temporary files in one directory, and the directory.
TmpDir == << "tmp" >>
TmpFile1 == << "tmp", "tmpfile1" >>
TmpFile2 == << "tmp", "tmpfile2" >>
LlFiles == { TmpFile1, TmpFile2 }
LlDirs == { <<>>, TmpDir }
LlPaths == LlFiles \cup LlDirs

\* path_beneath_rules(paths, access): one rule per path that can be opened, with
\* the directory-only rights dropped on a file.
PathBeneathRules(paths, access) ==
    { [path |-> q, access |-> IF q \in LlFiles THEN access \cap AccessFile ELSE access]
        : q \in paths \cap LlPaths }

\* Whether a ruleset lets an access through: the right is not handled, or a rule
\* on the path or on a directory above it grants it.
LayerPermits(layer, path, right) ==
    \/ right \notin layer.handled
    \/ \E rule \in layer.rules : IsPrefix(rule.path, path) /\ right \in rule.access

\* Whether a domain lets an access through: every ruleset of it does.
Permits(dom, path, right) ==
    \A i \in 1..Len(dom) : LayerPermits(dom[i], path, right)

\* The right each operation of std::fs asks for on an existing entry.
RightOf(op) ==
    CASE op = "read_to_string" -> "ReadFile"
      [] op = "write"          -> "WriteFile"
      [] op = "read_dir"       -> "ReadDir"

FsOps == { "read_to_string", "write", "read_dir" }

\* The paths an operation applies to.
OpPaths(op) == IF op = "read_dir" THEN LlDirs ELSE LlFiles

\* The io::Result of an operation of a thread with domain dom.
AccessResult(dom, op, path) ==
    IF Permits(dom, path, RightOf(op)) THEN "Ok" ELSE "PermissionDenied"

\* Ruleset::new().handle_access(access)?.create()?: the rights the rulesets of this
\* host handle, and the status.  Best effort: without Landlock nothing is handled,
\* with an older ABI the rights it knows.
HandleAccess(access, hostAbi) ==
    [ handled |-> access \cap AccessFsFromAll(hostAbi),
      status  |-> IF hostAbi = 0 THEN "NotEnforced"
                  ELSE IF access \subseteq AccessFsFromAll(hostAbi) THEN "FullyEnforced"
                  ELSE "PartiallyEnforced" ]

\* A variant of RestrictSelf: the new ruleset takes the place of the domain.
RestrictSelfReplacing(dom, ruleset) ==
    IF ruleset.status = "NotEnforced" THEN dom ELSE << ruleset >>

\* .restrict_self()?: the ruleset is stacked on the domain of the calling thread;
\* a ruleset that is not enforced restricts nothing.
RestrictSelf(dom, ruleset) ==
    IF ruleset.status = "NotEnforced" THEN dom ELSE Append(dom, ruleset)

\* A variant of RestrictHandling: the ruleset is a hard requirement, so a host
\* without Landlock makes the call fail.
RestrictHandlingHardRequirement(access, dom, rules, itemErr, sysErr, hostAbi) ==
    LET h == HandleAccess(access, hostAbi)
        ruleset == [ handled |-> h.handled,
                     rules   |-> { [path |-> r.path, access |-> r.access \cap h.handled]
                                     : r \in rules },
                     status  |-> h.status ]
    IN  IF itemErr \/ sysErr \/ hostAbi = 0
        THEN [ value |-> "Err", dom |-> dom, requested |-> access ]
        ELSE [ value |-> h.status, dom |-> RestrictSelf(dom, ruleset), requested |-> access ]

\* The body of try_restrict for a ruleset that handles `access`: the value
\* returned and the domain of the calling thread afterwards.  `rules` are the Ok
\* items of fs_exceptions, `itemErr` tells whether an item is an Err, `sysErr`
\* whether a system call of the crate fails.
RestrictHandling(access, dom, rules, itemErr, sysErr, hostAbi) ==
    LET h == HandleAccess(access, hostAbi)
        ruleset == [ handled |-> h.handled,
                     rules   |-> { [path |-> r.path, access |-> r.access \cap h.handled]
                                     : r \in rules },
                     status  |-> h.status ]
    IN  IF itemErr \/ (sysErr /\ hostAbi > 0)
        THEN [ value |-> "Err", dom |-> dom, requested |-> access ]
        ELSE [ value |-> h.status, dom |-> RestrictSelf(dom, ruleset), requested |-> access ]

\* A variant of try_restrict: handle_access(AccessFs::from_read(LANDLOCK_ABI)).
TryRestrictHandlingReads(dom, rules, itemErr, sysErr, hostAbi) ==
    RestrictHandling(AccessFsFromRead(LANDLOCK_ABI), dom, rules, itemErr, sysErr, hostAbi)

\* A variant of try_restrict: the ruleset does not handle ReadDir.
TryRestrictNotHandlingReadDir(dom, rules, itemErr, sysErr, hostAbi) ==
    RestrictHandling(AccessFsFromAll(LANDLOCK_ABI) \ { "ReadDir" },
                     dom, rules, itemErr, sysErr, hostAbi)

\* A variant of try_restrict: the ruleset handles what the ABI of the host knows.
TryRestrictNegotiating(dom, rules, itemErr, sysErr, hostAbi) ==
    RestrictHandling(AccessFsFromAll(hostAbi), dom, rules, itemErr, sysErr, hostAbi)

\* try_restrict(fs_exceptions): the ruleset handles AccessFs::from_all(LANDLOCK_ABI).
TryRestrict(dom, rules, itemErr, sysErr, hostAbi) ==
    RestrictHandling(AccessFsFromAll(LANDLOCK_ABI), dom, rules, itemErr, sysErr, hostAbi)

(***************************************************************************)
(* remove_env_vars.  A key or a value is an OsString, modelled as the      *)
(* sequence of its characters; "NUL" is the null character and "xFF" a     *)
(* byte that makes the string invalid UTF-8.                               *)
(***************************************************************************)
\* How many entries the environment of the process has at most.
MaxEnv == 2

RUST_LOG == << "R", "U", "S", "T", "_", "L", "O", "G" >>

\* Keys: the allow-listed one, well-formed ones (valid UTF-8 or not), and the
\* kinds remove_env_vars looks for: empty, with '=', with a null character.
EnvKeys ==
    { RUST_LOG, << "H", "O", "M", "E" >>, << "xFF" >>,
      << "=", "C" >>, << "=", "xFF" >>, << >>, << "A", "NUL" >>, << "=", "NUL" >> }

EnvValues == { << "v" >>, << "v", "NUL" >>, << "xFF", "NUL" >> }

EnvEntries == [ key : EnvKeys, value : EnvValues ]

\* The environments: up to MaxEnv different entries, in any order.
EnvTables ==
    UNION { { e \in [ 1..n -> EnvEntries ] : \A i, j \in 1..n : i # j => e[i] # e[j] }
              : n \in 0..MaxEnv }

\* str::contains(ch)
Contains(str, ch) == \E i \in 1..Len(str) : str[i] = ch

\* OsStr::to_str: Some(str) if the string is valid UTF-8, None otherwise.
ToStr(os) ==
    IF Contains(os, "xFF") THEN [ some |-> FALSE, str |-> << >> ]
    ELSE [ some |-> TRUE, str |-> os ]

\* opt.is_some_and(|s| s.contains(ch))
IsSomeAndContains(opt, ch) == opt.some /\ Contains(opt.str, ch)

\* Lines 119-132: err_reasons of an entry.
ErrReasons(key, value) ==
    LET key_str == ToStr(key)
        value_str == ToStr(value)
    IN  (IF key = << >> THEN << "key is empty" >> ELSE << >>)
        \o (IF IsSomeAndContains(key_str, "=") THEN << "key contains '='" >> ELSE << >>)
        \o (IF IsSomeAndContains(key_str, "NUL")
            THEN << "key contains null character" >> ELSE << >>)
        \o (IF IsSomeAndContains(value_str, "NUL")
            THEN << "value contains null character" >> ELSE << >>)

\* A variant of IsAllowListed: no variable is kept.
NothingAllowListed(key) == FALSE

\* key == "RUST_LOG"
IsAllowListed(key) == key = RUST_LOG

\* A variant of RemoveVarPanics: a failure of the removal is ignored.
RemoveVarNeverPanics(key) == FALSE

\* std::env::remove_var(key) panics when unsetenv rejects the name: an empty key,
\* a key with '=' or with a null character.
RemoveVarPanics(key) == key = << >> \/ Contains(key, "=") \/ Contains(key, "NUL")

\* std::env::remove_var(key) otherwise: no entry of that name is left.
RemoveVar(e, key) == SelectSeq(e, LAMBDA x : x.key # key)

\* The loop over std::env::vars_os(), a snapshot of the environment, from its
\* i-th entry on; st is the environment, the warnings logged and how the
\* function has ended.
RECURSIVE RemoveEnvVarsFrom(_, _, _)
RemoveEnvVarsFrom(snapshot, i, st) ==
    IF i > Len(snapshot) THEN [ st EXCEPT !.scrub = "returned" ]
    ELSE LET key == snapshot[i].key
             value == snapshot[i].value
             err_reasons == ErrReasons(key, value)
             logged == IF err_reasons # << >>
                       THEN Append(st.warned, [ key |-> key, value |-> value,
                                                reasons |-> err_reasons ])
                       ELSE st.warned
         IN  IF IsAllowListed(key) THEN RemoveEnvVarsFrom(snapshot, i + 1, st)
             ELSE IF RemoveVarPanics(key)
                  THEN [ st EXCEPT !.warned = logged, !.scrub = "panicked" ]
                  ELSE RemoveEnvVarsFrom(snapshot, i + 1,
                           [ st EXCEPT !.warned = logged, !.env = RemoveVar(@, key) ])

\* remove_env_vars(debug_id) in the environment e.
RemoveEnvVars(e) ==
    RemoveEnvVarsFrom(e, 1, [ env |-> e, warned |-> << >>, scrub |-> "none" ])

\* What a call of remove_env_vars does to the environment of the process.
RemoveEnvVarsStep ==
    /\ scrub = "none"
    /\ LET r == RemoveEnvVars(env)
       IN  /\ env' = r.env
           /\ warned' = r.warned
           /\ scrub' = r.scrub
    /\ envBefore' = env

\* The process calls remove_env_vars.
RemoveEnvVarsCall == RemoveEnvVarsStep /\ UNCHANGED << isoVars, llVars, dmpVars >>

(***************************************************************************)
(* Threads: the main thread of the process and the thread it has spawned   *)
(* (a test's thread, or the probe thread of get_status).                   *)
(***************************************************************************)
MainThread == "main"
Threads == { MainThread, "spawned" }

NoAccess == [ thread |-> "none", op |-> "none", path |-> <<>>, result |-> "none" ]

\* No environment: the process is looked at for its threads only.
EnvNone == env = <<>> /\ envBefore = <<>> /\ warned = <<>> /\ scrub = "none"

\* A storage map with nothing stored.
EmptyMap == [ k \in {} |-> << >> ]

NotMigrated ==
    [ kind |-> "none", index |-> 0, taken |-> << >>, sinkBefore |-> << >>,
      errors |-> << >> ]

\* No old storage: the process is not a runtime that migrates.
DmpNone ==
    /\ pages = EmptyMap
    /\ overweight = EmptyMap
    /\ sink = << >>
    /\ migrated = NotMigrated

NotChecked == [ status |-> "none", enabled |-> FALSE ]

NotReported == [ from |-> "none", status |-> [ landlock |-> "none" ] ]

LlInit ==
    /\ kernelAbi \in KernelAbis
    /\ thr = [ t \in Threads |-> IF t = MainThread THEN "running" ELSE "unborn" ]
    /\ domain = [ t \in Threads |-> <<>> ]
    /\ probeOf = [ t \in Threads |-> "none" ]
    /\ ret = [ t \in Threads |-> "none" ]
    /\ lastAccess = NoAccess
    /\ restricts = 0
    /\ asked = {}
    /\ checked = NotChecked
    /\ reported = NotReported

(***************************************************************************)
(* The worker process: its startup sequence calls                          *)
(* unshare_user_namespace_and_change_root, then restricts the filesystem,  *)
(* then hands control to the payload.                                      *)
(***************************************************************************)
IsoInit ==
    /\ workerDir \in WorkerDirs
    /\ \E pre \in SUBSET { OldrootRelative(workerDir, s) : s \in Tokens } :
           entries = HostEntries \cup WorkerEntries(workerDir) \cup pre
    /\ \E cap \in BOOLEAN, shared \in BOOLEAN, dir \in { <<>>, <<"home">>, workerDir } :
           kern = [ userNs |-> 0, euidMapped |-> TRUE, capSysAdmin |-> cap,
                    mntNs |-> 0, rootShared |-> shared, bindMounts |-> {},
                    root |-> <<>>, cwd |-> dir,
                    oldroot |-> "none", oldrootAt |-> <<>> ]
    /\ pc = "idle"
    /\ token = "none"
    /\ caller = "none"
    /\ trace = <<>>
    /\ log = <<>>
    /\ orch = "start"

\* The environments the worker is started with: an ordinary one, and one with a
\* key that starts with '='.
StartupEnvTables ==
    { << [ key |-> RUST_LOG, value |-> << "v" >> ],
         [ key |-> << "H", "O", "M", "E" >>, value |-> << "v" >> ] >>,
      << [ key |-> << "H", "O", "M", "E" >>, value |-> << "v" >> ],
         [ key |-> << "=", "C" >>, value |-> << "v" >> ] >> }

EnvStartup ==
    /\ env \in StartupEnvTables
    /\ envBefore = << >>
    /\ warned = << >>
    /\ scrub = "none"

Init == IsoInit /\ LlInit /\ EnvStartup /\ DmpNone

\* What the startup sequence does with the Result of the isolation: it goes on
\* to the filesystem restriction on Ok and gives up on an Err.
OrchAfterIsolation(result) == IF result = "Ok" THEN "restrict" ELSE "aborted"

\* A variant of OrchAfterRestriction: any status but an error lets the payload run.
OrchAfterRestrictionLenient(value) == IF value # "Err" THEN "ready" ELSE "aborted"

\* What the startup sequence does with the Result of the restriction: only a
\* fully enforced ruleset lets the payload run.
OrchAfterRestriction(value) == IF value = "FullyEnforced" THEN "ready" ELSE "aborted"

\* The function returns `result` to its caller.
Return(result) ==
    /\ pc' = "idle"
    /\ log' = Append(log, [ result |-> result, trace |-> trace', by |-> caller',
                            token |-> token' ])
    /\ orch' = IF caller' = "startup" THEN OrchAfterIsolation(result) ELSE orch

\* A variant of Enter: the path is looked up in the environment (HOME), so a
\* call made when the variable is not there fails before any system call.
EnterReadingEnv(who) ==
    /\ pc = "idle"
    /\ Len(log) < MaxCalls
    /\ caller' = who
    /\ trace' = <<>>
    /\ token' \in Tokens
    /\ LET worker_dir_path_str ==
               IF \E i \in 1..Len(env) : env[i].key = << "H", "O", "M", "E" >>
               THEN ToStr(workerDir) ELSE [ some |-> FALSE, str |-> << >> ]
       IN  IF worker_dir_path_str.some
           THEN pc' = NextStep("entry") /\ UNCHANGED << log, orch >>
           ELSE Return(ErrNotUtf8)
    /\ UNCHANGED << workerDir, entries, kern, llVars, envVars, dmpVars >>

\* A variant of Enter: the path is checked after the two namespaces are unshared.
EnterCheckingLate(who) ==
    /\ pc = "idle"
    /\ Len(log) < MaxCalls
    /\ caller' = who
    /\ trace' = <<>>
    /\ token' \in Tokens
    /\ LET worker_dir_path_str == ToStr(workerDir)
       IN  IF worker_dir_path_str.some
           THEN pc' = NextStep("entry") /\ UNCHANGED << log, orch, kern >>
           ELSE /\ kern' = DoUnshareMount(DoUnshareUser(kern))
                /\ Return(ErrNotUtf8)
    /\ UNCHANGED << workerDir, entries, llVars, envVars, dmpVars >>

\* Lines 31-44: the random string, the UTF-8 check of the path
\* (worker_dir_path.to_str().ok_or(..)?) and the C strings.
Enter(who) ==
    /\ pc = "idle"
    /\ Len(log) < MaxCalls
    /\ caller' = who
    /\ trace' = <<>>
    /\ token' \in Tokens
    /\ LET worker_dir_path_str == ToStr(workerDir)
       IN  IF worker_dir_path_str.some
           THEN pc' = NextStep("entry") /\ UNCHANGED << log, orch >>
           ELSE Return(ErrNotUtf8)
    /\ UNCHANGED << workerDir, entries, kern, llVars, envVars, dmpVars >>

\* The startup sequence isolates the process first.
StartupIsolate == orch = "start" /\ Enter("startup")

\* Any other invocation, at any time the function is not running.
CallAgain == orch # "start" /\ scrub # "panicked" /\ Enter("other")

\* One system call of the unsafe block: attempted at its place in the sequence;
\* the kernel lets it succeed only if `can`, and it may fail in any case.
Syscall(step, can, kernAfter, entriesAfter) ==
    /\ pc = step
    /\ UNCHANGED << workerDir, token, caller, llVars, envVars, dmpVars >>
    /\ \E ok \in (IF can THEN BOOLEAN ELSE {FALSE}) :
           /\ trace' = Append(trace, [ step |-> step, ok |-> ok ])
           /\ kern' = IF ok THEN kernAfter ELSE kern
           /\ entries' = IF ok THEN entriesAfter ELSE entries
           /\ IF After(step, ok).pc = "return"
              THEN Return(After(step, ok).result)
              ELSE pc' = After(step, ok).pc /\ UNCHANGED << log, orch >>

UnshareUser ==
    Syscall("unshare_user", CanUnshareUser(kern), DoUnshareUser(kern), entries)

UnshareMount ==
    Syscall("unshare_mount", CanUnshareMount(kern), DoUnshareMount(kern), entries)

MountPrivate ==
    Syscall("mount_private", CanMountPrivate(kern), DoMountPrivate(kern), entries)

MountBind ==
    Syscall("mount_bind", CanMountBind(kern, entries, workerDir),
            DoMountBind(kern, workerDir), entries)

MkdirOldroot ==
    Syscall("mkdir_oldroot", CanMkdir(kern, entries, OldrootRelative(workerDir, token)),
            kern, DoMkdir(kern, entries, OldrootRelative(workerDir, token)))

PivotRoot ==
    Syscall("pivot_root",
            CanPivotRoot(kern, entries, workerDir, OldrootRelative(workerDir, token)),
            DoPivotRoot(kern, workerDir, OldrootRelative(workerDir, token)), entries)

Chdir ==
    Syscall("chdir", CanChdir(kern, entries, <<>>), DoChdir(kern, <<>>), entries)

Umount2 ==
    Syscall("umount2", CanUmount2(kern, OldrootAbsolute(token)),
            DoUmount2(kern, OldrootAbsolute(token)), entries)

Rmdir ==
    Syscall("rmdir", CanRmdir(kern, entries, OldrootAbsolute(token)),
            kern, DoRmdir(kern, entries, OldrootAbsolute(token)))

(***************************************************************************)
(* The rest of the startup sequence.                                       *)
(***************************************************************************)
\* The exceptions a caller of try_restrict may pass: path_beneath_rules over no
\* path, a file, a directory or two files, with one of the access sets the callers use.
ExceptionPaths == { {}, { TmpFile1 }, { TmpDir }, { TmpFile1, TmpFile2 } }

AccessChoices ==
    { AccessFsFromRead(LANDLOCK_ABI),
      AccessFsFromWrite(LANDLOCK_ABI),
      AccessFsFromRead(LANDLOCK_ABI) \ { "ReadDir" } }

ExceptionChoices ==
    { PathBeneathRules(ps, acc) : ps \in ExceptionPaths, acc \in AccessChoices }

\* The startup sequence restricts the main thread.
StartupRestrict ==
    /\ orch = "restrict"
    /\ pc = "idle"
    /\ \E rules \in ExceptionChoices, itemErr \in BOOLEAN, sysErr \in BOOLEAN :
           LET r == TryRestrict(domain[MainThread], rules, itemErr, sysErr, kernelAbi)
           IN  /\ domain' = [ domain EXCEPT ![MainThread] = r.dom ]
               /\ ret' = [ ret EXCEPT ![MainThread] = r.value ]
               /\ asked' = r.requested
               /\ orch' = OrchAfterRestriction(r.value)
    /\ UNCHANGED << workerDir, entries, kern, pc, token, caller, trace, log,
                    kernelAbi, reported, thr, probeOf, lastAccess, restricts, checked, envVars, dmpVars >>

\* The startup sequence scrubs the environment, at any place before the payload
\* runs; a panic of remove_env_vars ends the worker.
StartupScrub ==
    /\ orch \in { "start", "restrict", "ready" }
    /\ pc = "idle"
    /\ RemoveEnvVarsStep
    /\ orch' = IF scrub' = "panicked" THEN "aborted" ELSE orch
    /\ UNCHANGED << workerDir, entries, kern, pc, token, caller, trace, log, llVars,
                    dmpVars >>

\* The startup sequence hands control to the untrusted payload.
StartupRunPayload ==
    /\ orch = "ready"
    /\ pc = "idle"
    /\ scrub = "returned"
    /\ orch' = "payload"
    /\ UNCHANGED << workerDir, entries, kern, pc, token, caller, trace, log, llVars, envVars, dmpVars >>

Next ==
    \/ StartupIsolate
    \/ CallAgain
    \/ UnshareUser
    \/ UnshareMount
    \/ MountPrivate
    \/ MountBind
    \/ MkdirOldroot
    \/ PivotRoot
    \/ Chdir
    \/ Umount2
    \/ Rmdir
    \/ StartupRestrict
    \/ StartupScrub
    \/ StartupRunPayload

Spec == Init /\ [][Next]_vars

(***************************************************************************)
(* Workers that follow one another on the same worker directory: when a    *)
(* worker has given up, the host starts a new process on that directory.   *)
(***************************************************************************)
\* The kernel state of a process the host has just started.
HostKernels ==
    { [ userNs |-> 0, euidMapped |-> TRUE, capSysAdmin |-> cap,
        mntNs |-> 0, rootShared |-> shared, bindMounts |-> {},
        root |-> <<>>, cwd |-> dir,
        oldroot |-> "none", oldrootAt |-> <<>> ]
        : cap \in BOOLEAN, shared \in BOOLEAN, dir \in { <<>>, <<"home">>, workerDir } }

\* The worker whose isolation failed has ended and the host starts a new worker
\* on the same directory: the new process is in the namespaces of the host again,
\* the files are as the previous process left them.
Respawn ==
    /\ orch = "aborted"
    /\ pc = "idle"
    /\ Len(log) < MaxCalls
    /\ kern' \in HostKernels
    /\ orch' = "start"
    /\ UNCHANGED << workerDir, entries, pc, token, caller, trace, log, llVars, envVars, dmpVars >>

InitAttempts == IsoInit /\ LlInit /\ kernelAbi = LANDLOCK_ABI /\ EnvNone /\ DmpNone

NextAttempts ==
    \/ StartupIsolate
    \/ UnshareUser
    \/ UnshareMount
    \/ MountPrivate
    \/ MountBind
    \/ MkdirOldroot
    \/ PivotRoot
    \/ Chdir
    \/ Umount2
    \/ Rmdir
    \/ Respawn

SpecAttempts == InitAttempts /\ [][NextAttempts]_vars

(***************************************************************************)
(* Threads that restrict themselves, use the file system and probe, as the *)
(* tests of the landlock module do.                                        *)
(***************************************************************************)
\* How many times the threads of the process call try_restrict themselves.
MaxRestricts == 2

\* thread::spawn: the new thread starts with the domain of its parent.
Spawn(c, t) ==
    /\ thr[c] = "running"
    /\ thr[t] = "unborn"
    /\ thr' = [ thr EXCEPT ![t] = "running" ]
    /\ domain' = [ domain EXCEPT ![t] = domain[c] ]
    /\ lastAccess' = NoAccess
    /\ UNCHANGED << isoVars, envVars, dmpVars, checked, asked, kernelAbi, reported, probeOf, ret, restricts >>

\* Thread t calls try_restrict.
Restrict(t) ==
    /\ thr[t] = "running"
    /\ restricts < MaxRestricts
    /\ restricts' = restricts + 1
    /\ \E rules \in ExceptionChoices, itemErr \in BOOLEAN, sysErr \in BOOLEAN :
           LET r == TryRestrict(domain[t], rules, itemErr, sysErr, kernelAbi)
           IN  /\ domain' = [ domain EXCEPT ![t] = r.dom ]
               /\ ret' = [ ret EXCEPT ![t] = r.value ]
               /\ asked' = r.requested
    /\ lastAccess' = NoAccess
    /\ UNCHANGED << isoVars, envVars, dmpVars, checked, kernelAbi, reported, thr, probeOf >>

\* Thread t reads a file, writes a file or lists a directory.
Access(t) ==
    /\ thr[t] = "running"
    /\ \E op \in FsOps : \E path \in OpPaths(op) :
           lastAccess' = [ thread |-> t, op |-> op, path |-> path,
                           result |-> AccessResult(domain[t], op, path) ]
    /\ UNCHANGED << isoVars, envVars, dmpVars, checked, asked, kernelAbi, reported, thr, domain, probeOf, ret, restricts >>

\* A variant of ProbeThread: the trial restriction runs in the calling thread.
ProbeInCaller(c, spawned) == c

\* get_status: the thread whose closure calls try_restrict, that is the thread
\* std::thread::spawn started and not the thread c that called get_status.
ProbeThread(c, spawned) == spawned

\* get_status, std::thread::spawn(..): thread c starts the probe thread and waits
\* in join().
GetStatusSpawn(c, t) ==
    /\ thr[c] = "running"
    /\ thr[t] = "unborn"
    /\ thr' = [ thr EXCEPT ![c] = "joining", ![t] = "probe" ]
    /\ domain' = [ domain EXCEPT ![t] = domain[c] ]
    /\ probeOf' = [ probeOf EXCEPT ![t] = c ]
    /\ UNCHANGED << isoVars, envVars, dmpVars, checked, asked, kernelAbi, reported, ret, lastAccess, restricts >>

\* The closure of the probe thread: try_restrict(std::iter::empty()).
ProbeRun(t) ==
    /\ thr[t] = "probe"
    /\ \E sysErr \in BOOLEAN :
           LET target == ProbeThread(probeOf[t], t)
               r == TryRestrict(domain[target], {}, FALSE, sysErr, kernelAbi)
           IN  /\ domain' = [ domain EXCEPT ![target] = r.dom ]
               /\ ret' = [ ret EXCEPT ![t] = r.value ]
               /\ asked' = r.requested
    /\ thr' = [ thr EXCEPT ![t] = "finished" ]
    /\ UNCHANGED << isoVars, envVars, dmpVars, checked, kernelAbi, reported, probeOf, lastAccess, restricts >>

\* A variant of ProbePanic: the panic of the probe thread unwinds into the thread
\* that waits for it.
ProbePanicPropagating(t) ==
    /\ thr[t] = "probe"
    /\ thr' = [ thr EXCEPT ![t] = "panicked", ![probeOf[t]] = "panicked" ]
    /\ UNCHANGED << isoVars, envVars, dmpVars, checked, asked, kernelAbi, reported, domain, probeOf, ret, lastAccess, restricts >>

\* The probe thread panics: the thread ends, join() will yield Err(_).
ProbePanic(t) ==
    /\ thr[t] = "probe"
    /\ thr' = [ thr EXCEPT ![t] = "panicked" ]
    /\ UNCHANGED << isoVars, envVars, dmpVars, checked, asked, kernelAbi, reported, domain, probeOf, ret, lastAccess, restricts >>

\* A variant of GetStatusValue: a panic is reported as the error of a failed
\* trial restriction.
GetStatusValueMerged(state, value) ==
    IF state = "panicked" THEN "Err" ELSE value

\* The match on the value of join(): what get_status returns.  Ok(status) is the
\* status, "Err" is Err(ruleset_err.into()) and "ErrPanic" is
\* Err("a panic occurred in try_restrict".into()).
GetStatusValue(state, value) ==
    IF state = "panicked" THEN "ErrPanic"
    ELSE IF value = "Err" THEN "Err"
    ELSE value

\* get_status, .join(): the probe thread has ended and get_status returns; the
\* probe thread is gone.
GetStatusJoin(c, t) ==
    /\ thr[c] = "joining"
    /\ probeOf[t] = c
    /\ thr[t] \in { "finished", "panicked" }
    /\ ret' = [ ret EXCEPT ![c] = GetStatusValue(thr[t], ret[t]), ![t] = "none" ]
    /\ thr' = [ thr EXCEPT ![c] = "running", ![t] = "unborn" ]
    /\ domain' = [ domain EXCEPT ![t] = <<>> ]
    /\ probeOf' = [ probeOf EXCEPT ![t] = "none" ]
    /\ UNCHANGED << isoVars, envVars, dmpVars, checked, asked, kernelAbi, reported, lastAccess, restricts >>

\* Threads that restrict themselves and use the file system.
NextLandlock ==
    \/ \E c, t \in Threads : Spawn(c, t)
    \/ \E t \in Threads : Restrict(t)
    \/ \E t \in Threads : Access(t)

\* Threads that restrict themselves and probe.
NextProbe ==
    \/ \E c, t \in Threads : Spawn(c, t)
    \/ \E t \in Threads : Restrict(t)
    \/ \E c, t \in Threads : GetStatusSpawn(c, t)
    \/ \E t \in Threads : ProbeRun(t)
    \/ \E t \in Threads : ProbePanic(t)
    \/ \E c, t \in Threads : GetStatusJoin(c, t)

\* A process that is not being isolated.
IsoNone ==
    /\ workerDir = << "w" >>
    /\ entries = HostEntries \cup WorkerEntries(workerDir)
    /\ kern = [ userNs |-> 0, euidMapped |-> TRUE, capSysAdmin |-> FALSE,
                mntNs |-> 0, rootShared |-> FALSE, bindMounts |-> {},
                root |-> <<>>, cwd |-> <<>>,
                oldroot |-> "none", oldrootAt |-> <<>> ]
    /\ pc = "idle"
    /\ token = "none"
    /\ caller = "none"
    /\ trace = <<>>
    /\ log = <<>>
    /\ orch = "start"

\* The threads of a process that is not being isolated.
InitLandlock == IsoNone /\ LlInit /\ EnvNone /\ DmpNone

SpecLandlock == InitLandlock /\ [][NextLandlock]_vars

SpecProbe == InitLandlock /\ [][NextProbe]_vars

(***************************************************************************)
(* status_is_fully_enabled and check_is_fully_enabled.                     *)
(***************************************************************************)
\* The values of type Result<RulesetStatus, Box<dyn Error>>: Ok(status), or an
\* Err (of the trial restriction, or of a panic).
StatusResults ==
    { "FullyEnforced", "PartiallyEnforced", "NotEnforced", "Err", "ErrPanic" }

\* A variant of status_is_fully_enabled: matches!(status, Ok(_)).
StatusIsOk(status) ==
    status \in { "FullyEnforced", "PartiallyEnforced", "NotEnforced" }

\* matches!(status, Ok(RulesetStatus::FullyEnforced))
StatusIsFullyEnabled(status) == status = "FullyEnforced"

\* A caller applies status_is_fully_enabled to a Result.
StatusIsFullyEnabledCall ==
    /\ \E status \in StatusResults :
           checked' = [ status |-> status, enabled |-> StatusIsFullyEnabled(status) ]
    /\ UNCHANGED << isoVars, envVars, dmpVars, asked, kernelAbi, reported, thr, domain, probeOf, ret,
                    lastAccess, restricts >>

\* check_is_fully_enabled, after its get_status() has returned to thread c:
\* status_is_fully_enabled(&get_status()).
CheckIsFullyEnabled(c) ==
    /\ thr[c] = "running"
    /\ ret[c] # "none"
    /\ checked' = [ status |-> ret[c], enabled |-> StatusIsFullyEnabled(ret[c]) ]
    /\ UNCHANGED << isoVars, envVars, dmpVars, asked, kernelAbi, reported, thr, domain, probeOf, ret,
                    lastAccess, restricts >>

\* Threads that probe and evaluate the result.
NextCheck ==
    \/ \E c, t \in Threads : GetStatusSpawn(c, t)
    \/ \E t \in Threads : ProbeRun(t)
    \/ \E t \in Threads : ProbePanic(t)
    \/ \E c, t \in Threads : GetStatusJoin(c, t)
    \/ \E c \in Threads : CheckIsFullyEnabled(c)
    \/ StatusIsFullyEnabledCall

SpecCheck == InitLandlock /\ [][NextCheck]_vars

\* join() returns once the thread it waits for has ended.
SpecProbeFair ==
    SpecProbe /\ \A c \in Threads, t \in Threads : WF_vars(GetStatusJoin(c, t))

(***************************************************************************)
(* LandlockStatus::from_ruleset_status.  A value of landlock::RulesetStatus *)
(* is the name of its variant, as try_restrict returns it; a value of      *)
(* LandlockStatus is a record with the name of its variant.                *)
(***************************************************************************)
\* enum landlock::RulesetStatus
RulesetStatuses == { "FullyEnforced", "PartiallyEnforced", "NotEnforced" }

\* pub enum LandlockStatus
LandlockStatuses ==
    { [ landlock |-> v ]
        : v \in { "FullyEnforced", "PartiallyEnforced", "NotEnforced", "Unavailable" } }

\* A variant of from_ruleset_status: a partially enforced ruleset is reported as
\* fully enforced.
FromRulesetStatusUpgrading(ruleset_status) ==
    CASE ruleset_status = "FullyEnforced"     -> [ landlock |-> "FullyEnforced" ]
      [] ruleset_status = "PartiallyEnforced" -> [ landlock |-> "FullyEnforced" ]
      [] ruleset_status = "NotEnforced"       -> [ landlock |-> "NotEnforced" ]

\* match ruleset_status { .. }
FromRulesetStatus(ruleset_status) ==
    CASE ruleset_status = "FullyEnforced"     -> [ landlock |-> "FullyEnforced" ]
      [] ruleset_status = "PartiallyEnforced" -> [ landlock |-> "PartiallyEnforced" ]
      [] ruleset_status = "NotEnforced"       -> [ landlock |-> "NotEnforced" ]

\* A caller translates a status of the landlock crate.
FromRulesetStatusCall ==
    /\ \E ruleset_status \in RulesetStatuses :
           reported' = [ from |-> ruleset_status,
                         status |-> FromRulesetStatus(ruleset_status) ]
    /\ UNCHANGED << isoVars, envVars, dmpVars, asked, checked, kernelAbi, thr, domain, probeOf,
                    ret, lastAccess, restricts >>

\* Thread c translates the status its get_status() has returned, if it is an Ok.
FromRulesetStatusOfProbe(c) ==
    /\ thr[c] = "running"
    /\ ret[c] \in RulesetStatuses
    /\ reported' = [ from |-> ret[c], status |-> FromRulesetStatus(ret[c]) ]
    /\ UNCHANGED << isoVars, envVars, dmpVars, asked, checked, kernelAbi, thr, domain, probeOf,
                    ret, lastAccess, restricts >>

\* Threads that probe and translate the result.
NextStatus ==
    \/ \E c, t \in Threads : GetStatusSpawn(c, t)
    \/ \E t \in Threads : ProbeRun(t)
    \/ \E t \in Threads : ProbePanic(t)
    \/ \E c, t \in Threads : GetStatusJoin(c, t)
    \/ \E c \in Threads : FromRulesetStatusOfProbe(c)
    \/ FromRulesetStatusCall

SpecStatus == InitLandlock /\ [][NextStatus]_vars

(***************************************************************************)
(* The migration of the storage of the deleted DMP pallet                  *)
(* (cumulus/pallets/dmp-queue/src/migration.rs).  A storage map is a       *)
(* function from the keys that are stored; a message is a sequence of      *)
(* bytes, stored with the relay block it came from.                        *)
(***************************************************************************)
\* How many messages a page of the old storage has at most.
MaxPageLen == 2

\* The bound of the BoundedVec: the MaxMessageLen of T::DmpSink.
MaxMessageLen == 2

\* The keys the old storage maps may hold.
PageCounters == { 0, 1 }
OverweightIndices == { 0, 1 }

\* (RelayBlockNumber, Vec<u8>): the empty message, a message as long as the sink
\* takes and a message one byte longer.
StoredMessages ==
    { [ block |-> 100 + n, msg |-> [ i \in 1..n |-> n ] ]
        : n \in { 0, MaxMessageLen, MaxMessageLen + 1 } }

\* Vec<(RelayBlockNumber, Vec<u8>)>: a page, possibly empty.
StoredPages == UNION { [ 1..n -> StoredMessages ] : n \in 0..MaxPageLen }

\* The states of a storage map with keys among `keys` and values among `values`.
StorageMaps(keys, values) == UNION { [ ks -> values ] : ks \in SUBSET keys }

\* StorageMap::take(k): the value stored under k, if any, and the map without k.
Take(map, k) ==
    [ some  |-> k \in DOMAIN map,
      value |-> IF k \in DOMAIN map THEN << map[k] >> ELSE << >>,
      map   |-> [ x \in DOMAIN map \ { k } |-> map[x] ] ]

\* BoundedVec::<u8, _>::try_from(msg): Ok(bound) if the message fits the bound.
TryFrom(msg) ==
    IF Len(msg) <= MaxMessageLen
    THEN [ ok |-> TRUE, bound |-> msg ]
    ELSE [ ok |-> FALSE, bound |-> << >> ]

\* A variant of MigratePageFrom: a message that is too long ends the loop
\* (break for continue).
RECURSIVE MigratePageFromBreaking(_, _, _)
MigratePageFromBreaking(page, m, st) ==
    IF m >= Len(page) THEN st
    ELSE LET bound == TryFrom(page[m + 1].msg)
         IN  IF ~bound.ok
             THEN [ st EXCEPT !.errors = Append(@, [ m |-> m, error |-> "TOO LONG" ]) ]
             ELSE MigratePageFromBreaking(page, m + 1,
                      [ st EXCEPT !.sink = Append(@, bound.bound) ])

\* The loop of migrate_page from message #m on (lines 76-84); st is the sink and
\* the errors logged.
RECURSIVE MigratePageFrom(_, _, _)
MigratePageFrom(page, m, st) ==
    IF m >= Len(page) THEN st
    ELSE LET bound == TryFrom(page[m + 1].msg)
         IN  IF ~bound.ok
             THEN MigratePageFrom(page, m + 1,
                      [ st EXCEPT !.errors = Append(@, [ m |-> m, error |-> "TOO LONG" ]) ])
             ELSE MigratePageFrom(page, m + 1,
                      [ st EXCEPT !.sink = Append(@, bound.bound) ])

\* migrate_page(p).  Pages is a ValueQuery map: take yields the empty page when
\* nothing is stored under p.
MigratePage(p) ==
    /\ LET taken == Take(pages, p)
           page == IF taken.some THEN taken.value[1] ELSE << >>
           empty == IF page = << >> THEN << [ m |-> -1, error |-> "EMPTY" ] >> ELSE << >>
           r == MigratePageFrom(page, 0, [ sink |-> sink, errors |-> empty ])
       IN  /\ pages' = taken.map
           /\ sink' = r.sink
           /\ migrated' = [ kind |-> "page", index |-> p, taken |-> page,
                            sinkBefore |-> sink, errors |-> r.errors ]
    /\ UNCHANGED << overweight, isoVars, llVars, envVars >>

\* migrate_overweight(i).  Overweight is an OptionQuery map.
MigrateOverweight(i) ==
    /\ LET taken == Take(overweight, i)
           bound == IF taken.some THEN TryFrom(taken.value[1].msg)
                    ELSE [ ok |-> FALSE, bound |-> << >> ]
       IN  /\ overweight' = taken.map
           /\ sink' = IF taken.some /\ bound.ok THEN Append(sink, bound.bound) ELSE sink
           /\ migrated' = [ kind |-> "overweight", index |-> i, taken |-> taken.value,
                            sinkBefore |-> sink,
                            errors |-> IF ~taken.some
                                       THEN << [ m |-> -1, error |-> "EMPTY" ] >>
                                       ELSE IF ~bound.ok
                                       THEN << [ m |-> -1, error |-> "TOO LONG" ] >>
                                       ELSE << >> ]
    /\ UNCHANGED << pages, isoVars, llVars, envVars >>

\* A runtime with some old storage and nothing delivered yet.
InitDmp ==
    /\ IsoNone
    /\ LlInit
    /\ kernelAbi = LANDLOCK_ABI
    /\ EnvNone
    /\ pages \in StorageMaps(PageCounters, StoredPages)
    /\ overweight \in StorageMaps(OverweightIndices, StoredMessages)
    /\ sink = << >>
    /\ migrated = NotMigrated

NextDmp ==
    \/ \E p \in PageCounters : MigratePage(p)
    \/ \E i \in OverweightIndices : MigrateOverweight(i)

SpecDmp == InitDmp /\ [][NextDmp]_vars

(***************************************************************************)
(* A process that scrubs its environment.                                  *)
(***************************************************************************)
\* A process with some environment that scrubs it.
InitEnv ==
    /\ IsoNone
    /\ LlInit
    /\ kernelAbi = LANDLOCK_ABI
    /\ env \in EnvTables
    /\ envBefore = << >>
    /\ warned = << >>
    /\ scrub = "none"
    /\ DmpNone

NextEnv == RemoveEnvVarsCall

SpecEnv == InitEnv /\ [][NextEnv]_vars

(***************************************************************************)
(* Properties of unshare_user_namespace_and_change_root and of the startup *)
(* sequence, checked under Spec.                                           *)
(***************************************************************************)
\* The nine kernel operations in the order the design gives them.
StepOrder ==
    << "unshare_user", "unshare_mount", "mount_private", "mount_bind",
       "mkdir_oldroot", "pivot_root", "chdir", "umount2", "rmdir" >>

StepsOf(tr) == [ i \in 1..Len(tr) |-> tr[i].step ]

AllOk(tr) == \A i \in 1..Len(tr) : tr[i].ok

LogIdx == 1..Len(log)

\* The effects of the first n operations are in place.
EffectsInPlace(n) ==
    /\ n >= 1 => kern.userNs >= 1
    /\ n >= 2 => kern.mntNs >= 1
    /\ n >= 3 => ~kern.rootShared
    /\ n >= 4 => workerDir \in kern.bindMounts
    /\ n >= 5 => OldrootRelative(workerDir, token) \in entries
    /\ n >= 6 => kern.root = workerDir /\ kern.oldroot # "none"
    /\ n >= 7 => kern.cwd = kern.root
    /\ n >= 8 => kern.oldroot = "detached"

\* C1: in every execution the kernel operations are attempted in the order
\* unshare user ns, unshare mount ns, mount private, bind mount, mkdir of the
\* staging directory, pivot_root, chdir, umount2, rmdir: the operations a call has
\* attempted are always an initial part of that list, the next one is attempted
\* only at its place, and only after all earlier ones succeeded.
C1_StrictOrder ==
    /\ IsPrefix(StepsOf(trace), StepOrder)
    /\ \A i \in LogIdx : IsPrefix(StepsOf(log[i].trace), StepOrder)
    /\ pc \in StepNames =>
           /\ Len(trace) < Len(StepOrder)
           /\ pc = StepOrder[Len(trace) + 1]
           /\ AllOk(trace)
           /\ EffectsInPlace(Len(trace))

\* A call has gone through all nine operations.
C1_Witness ==
    \E i \in LogIdx : StepsOf(log[i].trace) = StepOrder /\ log[i].result = "Ok"

\* C2: a failing step ends the call with an error at once: in a completed call a
\* failed operation is the last one attempted and is attempted once, a call in
\* progress has no failed operation behind it, and Ok is returned only after all
\* nine operations succeeded.
C2_FailFast ==
    /\ pc \in StepNames => AllOk(trace)
    /\ \A i \in LogIdx :
           LET tr == log[i].trace
           IN  /\ \A j \in 1..Len(tr) : ~tr[j].ok =>
                      /\ j = Len(tr)
                      /\ log[i].result = ErrOf(tr[j].step)
               /\ \A j, m \in 1..Len(tr) : tr[j].step = tr[m].step => j = m
               /\ log[i].result = "Ok" <=> (Len(tr) = 9 /\ AllOk(tr))
               /\ log[i].result # "Ok" => (tr = <<>> \/ ~tr[Len(tr)].ok)

\* A call failed at the last operation, the removal of the staging directory.
C2_Witness ==
    \E i \in LogIdx :
        /\ Len(log[i].trace) = 9
        /\ ~log[i].trace[9].ok
        /\ log[i].result = "rmdir the oldroot"

\* C3: the startup sequence is fail-closed: whenever the payload has started, the
\* isolation it called returned Ok and the restriction returned FullyEnforced; and
\* after an isolation error, a restriction error or a status below FullyEnforced
\* the payload is neither started nor about to be.
C3_FailClosed ==
    /\ orch = "payload" =>
           /\ Len(log) >= 1
           /\ log[1].by = "startup"
           /\ log[1].result = "Ok"
           /\ ret[MainThread] = "FullyEnforced"
    /\ (\E i \in LogIdx : log[i].by = "startup" /\ log[i].result # "Ok")
           => orch = "aborted"
    /\ ret[MainThread] \in { "Err", "PartiallyEnforced", "NotEnforced" }
           => orch = "aborted"

\* The payload runs.
C3_Witness == orch = "payload" /\ domain[MainThread] # <<>> /\ kern.root = workerDir

\* The isolation has returned Ok in this process.
IsolationSucceeded == \E i \in LogIdx : log[i].result = "Ok"

\* What open(p) with the absolute path p finds.
Lookup(k, es, p) ==
    IF Resolve(k, p) \in es
    THEN [ found |-> TRUE, host |-> Resolve(k, p) ]
    ELSE [ found |-> FALSE, host |-> <<>> ]

\* The directory reached from d by n times "..", which stops at the root of the
\* process and at the root of the file system.
RECURSIVE Up(_, _, _)
Up(k, d, n) == IF n = 0 \/ d = k.root \/ d = <<>> THEN d ELSE Up(k, Parent(d), n - 1)

\* What open of the relative path "../"^n p finds.
LookupRelative(k, es, n, p) ==
    LET base == Up(k, k.cwd, n)
    IN  IF base = k.root THEN Lookup(k, es, p)
        ELSE IF base \o p \in es THEN [ found |-> TRUE, host |-> base \o p ]
        ELSE [ found |-> FALSE, host |-> <<>> ]

\* The paths a process may try: every entry by its path on the host, by its path
\* inside the worker directory, and under each staging directory.
PathsToTry ==
    LET inWorker == { SubSeq(e, Len(workerDir) + 1, Len(e)) :
                        e \in { x \in entries : IsPrefix(workerDir, x) } }
        plain == entries \cup inWorker
    IN  plain \cup { OldrootAbsolute(s) \o q : s \in Tokens, q \in plain }

\* What existed outside the worker directory.
Outside == { h \in entries : ~IsPrefix(workerDir, h) }

\* C4: when the isolation has returned Ok, the root of the process is the former
\* worker directory and the working directory is that root; no path, absolute or
\* relative, reaches anything that existed outside the worker directory
\* (/etc/passwd is not found), and <worker_dir>/payload.wasm is /payload.wasm.
C4_ConfinedRoot ==
    IsolationSucceeded =>
        /\ kern.root = workerDir
        /\ kern.cwd = kern.root
        /\ \A h \in Outside, q \in PathsToTry :
               /\ ~(Lookup(kern, entries, q).found /\ Lookup(kern, entries, q).host = h)
               /\ \A n \in 0..3 :
                      ~(/\ LookupRelative(kern, entries, n, q).found
                        /\ LookupRelative(kern, entries, n, q).host = h)
        /\ ~Lookup(kern, entries, << "etc", "passwd" >>).found
        /\ Lookup(kern, entries, << "payload.wasm" >>)
               = [ found |-> TRUE, host |-> Append(workerDir, "payload.wasm") ]

\* The isolation returned Ok for /var/worker-7 on a host that has /etc/passwd.
C4_Witness ==
    /\ IsolationSucceeded
    /\ pc = "idle"
    /\ << "etc", "passwd" >> \in entries
    /\ workerDir = << "var", "worker-7" >>

\* C5: a call made after the isolation succeeded in this process never returns Ok:
\* the unshare of the user namespace is the first operation it attempts, that
\* operation fails, and the call attempts nothing else (a path that is not UTF-8
\* is rejected before any operation).
C5_SecondCallFails ==
    /\ IsolationSucceeded /\ pc # "idle" => pc = "unshare_user" /\ trace = <<>>
    /\ \A i, j \in LogIdx :
           (i < j /\ log[i].result = "Ok") =>
               \/ /\ log[j].trace = << [ step |-> "unshare_user", ok |-> FALSE ] >>
                  /\ log[j].result = "unshare user namespace"
               \/ /\ log[j].trace = <<>>
                  /\ log[j].result = ErrNotUtf8

\* The isolation succeeded and a second call got as far as a system call.
C5_Witness ==
    \E i, j \in LogIdx :
        i < j /\ log[i].result = "Ok" /\ log[j].trace # <<>>

\* C6: the error a call returns identifies the step that failed: no other step
\* returns that value, and the rejection of the path returns yet another one.
C6_DistinctErrors ==
    \A i \in LogIdx :
        log[i].result # "Ok" =>
            LET tr == log[i].trace
            IN  IF tr = <<>>
                THEN \A st \in StepNames : ErrOf(st) # log[i].result
                ELSE \A st \in StepNames :
                         ErrOf(st) = log[i].result <=> st = tr[Len(tr)].step

\* Two calls of one process failed at different steps.
C6_Witness ==
    \E i, j \in LogIdx :
        /\ log[i].result # "Ok" /\ log[j].result # "Ok"
        /\ log[i].trace # <<>> /\ log[j].trace # <<>>
        /\ log[i].result # log[j].result

(***************************************************************************)
(* Properties of the filesystem restriction, checked under SpecLandlock,   *)
(* and of the probe, checked under SpecProbe.                              *)
(***************************************************************************)
Top(dom) == dom[Len(dom)]

\* Whether some rule covers the path with the right.
Covered(rules, path, right) ==
    \E r \in rules : IsPrefix(r.path, path) /\ right \in r.access

\* The last call of try_restrict by thread t reported FullyEnforced.
FullyRestricted(t) == thr[t] = "running" /\ ret[t] = "FullyEnforced"

Denied(t, op, path) == AccessResult(domain[t], op, path) = "PermissionDenied"
Allowed(t, op, path) == AccessResult(domain[t], op, path) = "Ok"

\* Thread t made the recorded access, with the domain it has now.
Recorded(t) == lastAccess.thread = t

\* C7: after try_restrict reported FullyEnforced for the exceptions E, a read or a
\* write succeeds only if a rule of E covers the path with that right; with no
\* exception everything is denied; with a read exception for P alone on a thread
\* not restricted before, reads under P succeed, reads outside P and writes under
\* P are denied; with a write exception for P, writes to P succeed and writes
\* outside P are denied.
C7_OnlyExceptionsPass ==
    \A t \in Threads :
        FullyRestricted(t) =>
            /\ domain[t] # <<>>
            /\ Top(domain[t]).status = "FullyEnforced"
            /\ \A op \in FsOps : \A path \in OpPaths(op) :
                   /\ Allowed(t, op, path)
                          => Covered(Top(domain[t]).rules, path, RightOf(op))
                   /\ (Recorded(t) /\ lastAccess.op = op /\ lastAccess.path = path
                         /\ lastAccess.result = "Ok")
                          => Covered(Top(domain[t]).rules, path, RightOf(op))
                   /\ Top(domain[t]).rules = {} => Denied(t, op, path)
            /\ \A P \in LlPaths, f \in LlFiles :
                   /\ ( /\ Len(domain[t]) = 1
                        /\ Top(domain[t]).rules
                               = PathBeneathRules({P}, AccessFsFromRead(LANDLOCK_ABI)) )
                          => /\ IsPrefix(P, f) => Allowed(t, "read_to_string", f)
                             /\ ~IsPrefix(P, f) => Denied(t, "read_to_string", f)
                             /\ Denied(t, "write", f)
                   /\ ( /\ Len(domain[t]) = 1
                        /\ Top(domain[t]).rules
                               = PathBeneathRules({P}, AccessFsFromWrite(LANDLOCK_ABI)) )
                          => /\ IsPrefix(P, f) => Allowed(t, "write", f)
                             /\ ~IsPrefix(P, f) => Denied(t, "write", f)

\* A thread restricted with a read exception for tmpfile1 has read it.
C7_Witness ==
    \E t \in Threads :
        /\ FullyRestricted(t)
        /\ Len(domain[t]) = 1
        /\ Top(domain[t]).rules
               = PathBeneathRules({TmpFile1}, AccessFsFromRead(LANDLOCK_ABI))
        /\ Recorded(t)
        /\ lastAccess.op = "read_to_string"
        /\ lastAccess.path = TmpFile1
        /\ lastAccess.result = "Ok"

\* C8: restriction only tightens: no step adds a permitted access to a thread, and
\* after a call of try_restrict that stacked a ruleset, an access the ruleset
\* handles is permitted only if it was permitted before and an exception of this
\* call covers it.
C8_OnlyTightens ==
    [][ \A t \in Threads :
            (thr[t] # "unborn" /\ domain'[t] # domain[t]) =>
                \A path \in LlPaths, right \in AllRights :
                    Permits(domain'[t], path, right) =>
                        /\ Permits(domain[t], path, right)
                        /\ ( /\ thr[t] = "running"
                             /\ Len(domain'[t]) = Len(domain[t]) + 1
                             /\ right \in AccessFsFromAll(LANDLOCK_ABI) )
                               => Covered(Top(domain'[t]).rules, path, right)
      ]_vars

\* A thread restricted without exceptions and then with a read exception for
\* tmpfile1 has tried to read it and was denied.
C8_Witness ==
    \E t \in Threads :
        /\ Len(domain[t]) = 2
        /\ domain[t][1].rules = {}
        /\ domain[t][2].rules
               = PathBeneathRules({TmpFile1}, AccessFsFromRead(LANDLOCK_ABI))
        /\ Recorded(t)
        /\ lastAccess.op = "read_to_string"
        /\ lastAccess.path = TmpFile1
        /\ lastAccess.result = "PermissionDenied"

\* The read rights without ReadDir, granted beneath the directory.
ReadWithoutReadDir ==
    PathBeneathRules({TmpDir}, AccessFsFromRead(LANDLOCK_ABI) \ { "ReadDir" })

\* C9: with an exception that grants read access to a directory without ReadDir,
\* fully enforced, listing the directory is denied, and on a thread not restricted
\* before reading a file inside it succeeds.
C9_ReadButNotList ==
    \A t \in Threads :
        (FullyRestricted(t) /\ domain[t] # <<>> /\ Top(domain[t]).rules = ReadWithoutReadDir)
            => /\ Denied(t, "read_dir", TmpDir)
               /\ (Recorded(t) /\ lastAccess.op = "read_dir" /\ lastAccess.path = TmpDir)
                      => lastAccess.result = "PermissionDenied"
               /\ Len(domain[t]) = 1 =>
                      /\ \A f \in LlFiles : Allowed(t, "read_to_string", f)
                      /\ (Recorded(t) /\ lastAccess.op = "read_to_string")
                             => lastAccess.result = "Ok"

\* A thread restricted that way has tried to list the directory.
C9_Witness ==
    \E t \in Threads :
        /\ FullyRestricted(t)
        /\ Len(domain[t]) = 1
        /\ Top(domain[t]).rules = ReadWithoutReadDir
        /\ Recorded(t)
        /\ lastAccess.op = "read_dir"
        /\ lastAccess.path = TmpDir
        /\ lastAccess.result = "PermissionDenied"

\* C10: get_status leaves the enforcement state of its caller unchanged: from the
\* spawn of the probe thread to the return of join() the domain of the calling
\* thread, and so the accesses it is permitted, stay what they were.
C10_ProbeLeavesCaller ==
    [][ \A c \in Threads :
            (thr[c] = "joining" \/ thr'[c] = "joining") =>
                /\ domain'[c] = domain[c]
                /\ \A path \in LlPaths, right \in AllRights :
                       Permits(domain'[c], path, right) <=> Permits(domain[c], path, right)
      ]_vars

\* get_status has returned FullyEnforced to a thread that is not restricted.
C10_Witness ==
    /\ thr[MainThread] = "running"
    /\ ret[MainThread] = "FullyEnforced"
    /\ domain[MainThread] = <<>>
    /\ thr["spawned"] = "unborn"

\* C20: when the isolation has returned Ok, the staging directory oldroot-<s> of
\* that call exists no more, neither as /oldroot-<s> in the new root nor on the
\* host, and the old root is mounted nowhere: it has been detached.
C20_StagingGone ==
    \A i \in LogIdx :
        log[i].result = "Ok" =>
            /\ ~Lookup(kern, entries, OldrootAbsolute(log[i].token)).found
            /\ OldrootRelative(workerDir, log[i].token) \notin entries
            /\ kern.oldroot = "detached"
            /\ \A q \in PathsToTry : ~IsOldrootMountPoint(kern, q)

\* The isolation returned Ok in a worker directory where a staging directory of
\* another name had been left behind.
C20_Witness ==
    /\ LogIdx # {}
    /\ log[Len(log)].result = "Ok"
    /\ \E s \in Tokens :
           s # log[Len(log)].token /\ OldrootRelative(workerDir, s) \in entries

\* C18: scrubbing and isolation do not depend on each other's order: a call of
\* remove_env_vars changes nothing of the namespaces, the root, the file system or
\* the results of the isolation; no step of the isolation or of the restriction
\* changes the environment, so that remove_env_vars, run before or after the
\* isolation, finds the environment the worker was started with and leaves the
\* same table and warnings; and the isolation can be started with the
\* environment scrubbed as well as with the environment untouched, and gets to
\* its first system call whenever the path of the worker directory is valid.
C18_ScrubCommutes ==
    /\ [][ scrub' # scrub =>
              UNCHANGED << workerDir, entries, kern, pc, token, caller, trace, log, llVars >>
         ]_vars
    /\ [][ scrub' = scrub => UNCHANGED envVars ]_vars
    /\ [](scrub = "none" => env \in StartupEnvTables)
    /\ [](scrub # "none" =>
            /\ envBefore \in StartupEnvTables
            /\ [ env |-> env, warned |-> warned, scrub |-> scrub ]
                   = RemoveEnvVars(envBefore))
    /\ []((orch = "start" /\ pc = "idle" /\ scrub # "panicked") =>
            /\ ENABLED StartupIsolate
            /\ ToStr(workerDir).some => ENABLED (StartupIsolate /\ pc' = "unshare_user"))

\* The environment has been scrubbed and the isolation has succeeded.
C18_Witness ==
    /\ scrub = "returned"
    /\ Len(envBefore) = 2
    /\ Len(env) = 1
    /\ IsolationSucceeded
    /\ kern.root = workerDir

(***************************************************************************)
(* Properties of get_status, checked under SpecProbeFair and SpecProbe.    *)
(***************************************************************************)
ProbeEnded(t) == thr[t] \in { "finished", "panicked" }

Joining(c, t) == thr[c] = "joining" /\ probeOf[t] = c

\* C11: a panic of the probe thread never takes down the caller of get_status:
\* the caller stays blocked in join() until the probe thread has ended (normally
\* or by panic), never returns before that, and once the probe thread has ended
\* get_status returns a value to the caller.
C11_JoinsProbe ==
    /\ [][ \A c \in Threads, t \in Threads :
              Joining(c, t) =>
                  /\ thr'[c] \in { "joining", "running" }
                  /\ thr'[c] = "running" =>
                         (ProbeEnded(t) /\ ret'[c] \in StatusResults) ]_vars
    /\ \A c \in Threads, t \in Threads :
           (Joining(c, t) /\ ProbeEnded(t)) ~> (thr[c] = "running" /\ probeOf[t] # c)

\* The probe thread has panicked while its caller waits in join().
C11_Witness ==
    /\ Joining(MainThread, "spawned")
    /\ thr["spawned"] = "panicked"

\* get_status returns to c the outcome of the probe thread t in this step.
Returns(c, t) == Joining(c, t) /\ thr'[c] = "running"

Unrestricted(t) ==
    \A op \in FsOps : \A path \in OpPaths(op) : AccessResult(domain[t], op, path) = "Ok"

\* C13: on a kernel without Landlock a probe whose thread ended normally makes
\* get_status return NotEnforced (no error, not Unavailable), and try_restrict
\* changes nothing there: it returns NotEnforced, or the error of a bad
\* exception, and every thread keeps unrestricted access to the file system.
C13_NoLandlockKernel ==
    /\ [](kernelAbi = 0 =>
            \A t \in Threads : domain[t] = <<>> /\ Unrestricted(t))
    /\ [][ kernelAbi = 0 =>
              \A c \in Threads, t \in Threads :
                  /\ (Returns(c, t) /\ thr[t] = "finished") => ret'[c] = "NotEnforced"
                  /\ (thr[c] = "running" /\ thr'[c] = "running" /\ ret'[c] # ret[c])
                         => ret'[c] \in { "NotEnforced", "Err" } ]_vars

\* On a kernel without Landlock get_status has returned NotEnforced to a thread
\* that never called try_restrict itself.
C13_Witness ==
    /\ kernelAbi = 0
    /\ restricts = 0
    /\ thr[MainThread] = "running"
    /\ ret[MainThread] = "NotEnforced"
    /\ thr["spawned"] = "unborn"

\* C14: the boolean is true exactly when the probe outcome is Ok(FullyEnforced):
\* status_is_fully_enabled, and check_is_fully_enabled on the value of get_status,
\* give false for PartiallyEnforced, for NotEnforced, for the error of a failed
\* trial restriction and for the error of a panicked probe thread.
C14_FullyEnabledOnly ==
    checked.status # "none" =>
        /\ checked.enabled <=> checked.status = "FullyEnforced"
        /\ checked.status \in { "PartiallyEnforced", "NotEnforced", "Err", "ErrPanic" }
               => ~checked.enabled

\* check_is_fully_enabled has answered false after a panic of the probe thread.
C14_Witness ==
    /\ ret[MainThread] = "ErrPanic"
    /\ checked = [ status |-> "ErrPanic", enabled |-> FALSE ]

(***************************************************************************)
(* Properties of remove_env_vars, checked under SpecEnv.                   *)
(***************************************************************************)
Keys(e) == { e[i].key : i \in 1..Len(e) }

Entries(e) == { e[i] : i \in 1..Len(e) }

AllowListed(e) == SelectSeq(e, LAMBDA x : x.key = RUST_LOG)

MalformedKey(key) == key = << >> \/ Contains(key, "=") \/ Contains(key, "NUL")

\* The entries of the environment at the call that are not allow-listed and have
\* a malformed key.
BadAt == { i \in 1..Len(envBefore) :
             envBefore[i].key # RUST_LOG /\ MalformedKey(envBefore[i].key) }

FirstBad == CHOOSE i \in BadAt : \A j \in BadAt : i <= j

\* C16 as stated: remove_env_vars never fails its caller: it runs to completion
\* over all entries of every environment.
C16_NeverFails == scrub # "none" => scrub = "returned"

\* C16, amended: remove_env_vars takes the entries in order and fails its caller
\* only at a malformed key: it runs to completion when no entry outside the
\* allow-list has an empty key or a key with '=' or a null character (a null
\* character in a value does no harm); otherwise it panics in the removal of the
\* first such entry, with the entries before it removed and that entry and the
\* later ones left in the environment.
C16_FailsOnlyAtBadKey ==
    scrub # "none" =>
        IF BadAt = {} THEN scrub = "returned"
        ELSE /\ scrub = "panicked"
             /\ \A j \in 1..Len(envBefore) :
                    /\ (j < FirstBad /\ envBefore[j].key # RUST_LOG)
                           => envBefore[j].key \notin Keys(env)
                    /\ (j >= FirstBad
                        /\ \A k \in 1..(FirstBad - 1) : envBefore[k].key # envBefore[j].key)
                           => envBefore[j] \in Entries(env)

\* The call has removed a well-formed variable and then panicked at a key with '='.
C16_Witness ==
    /\ scrub = "panicked"
    /\ Len(envBefore) = 2
    /\ envBefore[1].key = << "H", "O", "M", "E" >>
    /\ envBefore[2].key = << "=", "C" >>
    /\ env = << envBefore[2] >>

\* The entries the loop has reached: all of them, or those up to the one whose
\* removal panicked.
Reached == IF BadAt = {} THEN 1..Len(envBefore) ELSE 1..FirstBad

\* The validation reasons that apply to an entry, in the order of the checks.
ReasonsThatApply(e) ==
    (IF e.key = << >> THEN << "key is empty" >> ELSE << >>)
    \o (IF Contains(e.key, "=") THEN << "key contains '='" >> ELSE << >>)
    \o (IF Contains(e.key, "NUL") THEN << "key contains null character" >> ELSE << >>)
    \o (IF Contains(e.value, "NUL") THEN << "value contains null character" >> ELSE << >>)

WarningsFor(e) ==
    { i \in 1..Len(warned) : warned[i].key = e.key /\ warned[i].value = e.value }

\* C17: every entry outside the allow-list that the scrub reaches and that is
\* malformed (empty key, key with '=' or a null character, value with a null
\* character) has exactly one warning, which names its key and value and lists
\* every reason that applies; a well-formed entry has no warning.
C17_WarnsEachMalformed ==
    scrub # "none" =>
        \A i \in Reached :
            LET e == envBefore[i]
            IN  e.key # RUST_LOG =>
                    IF ReasonsThatApply(e) # << >>
                    THEN /\ Cardinality(WarningsFor(e)) = 1
                         /\ \A w \in WarningsFor(e) : warned[w].reasons = ReasonsThatApply(e)
                    ELSE WarningsFor(e) = {}

\* C19: the access rights try_restrict asks the kernel to handle are those of the
\* fixed ABI V1, whatever ABI the host kernel supports (none, V1 or V2) and
\* whatever the exceptions: never the rights a later ABI adds, never fewer.
C19_RequestsFixedAbi ==
    asked # {} =>
        /\ asked = AccessFsFromAll(LANDLOCK_ABI)
        /\ asked = AccessFsFromAll(1)
        /\ "Refer" \notin asked

\* try_restrict has been called on a host whose kernel supports a later ABI.
C19_Witness ==
    /\ kernelAbi = 2
    /\ asked # {}
    /\ \E t \in Threads : domain[t] # <<>>

(***************************************************************************)
(* Properties of the staging directory over the attempts that follow one   *)
(* another on a worker directory, checked under SpecAttempts.              *)
(***************************************************************************)
\* Whether the system call `step` succeeded in the attempt with trace tr.
Did(tr, step) == \E k \in 1..Len(tr) : tr[k].step = step /\ tr[k].ok

\* Whether the system call `step` was attempted in the attempt with trace tr.
Tried(tr, step) == \E k \in 1..Len(tr) : tr[k].step = step

\* Attempt i created its staging directory and did not remove it.
LeftStaging(i) == Did(log[i].trace, "mkdir_oldroot") /\ ~Did(log[i].trace, "rmdir")

\* C21, as claimed: the tokens chosen by two sequential isolation attempts on the
\* same worker directory differ.
C21_TokensDiffer ==
    \A i \in LogIdx, j \in LogIdx : i < j => log[i].token # log[j].token

\* C21, amended: the tokens of two attempts may be the same, but an attempt never
\* takes over the staging directory an earlier attempt with the same token left
\* behind: it creates no directory, swaps no root, unmounts and removes nothing,
\* and when it gets to the creation of the staging directory it fails there.
C21_CollisionFailsAtMkdir ==
    \A i \in LogIdx, j \in LogIdx :
        (i < j /\ log[i].token = log[j].token /\ LeftStaging(i)) =>
            /\ \A step \in { "mkdir_oldroot", "pivot_root", "umount2", "rmdir" } :
                   ~Did(log[j].trace, step)
            /\ Tried(log[j].trace, "mkdir_oldroot") =>
                   /\ log[j].result = ErrOf("mkdir_oldroot")
                   /\ ~Tried(log[j].trace, "pivot_root")

\* Two attempts have chosen the same token, the first has left its staging
\* directory behind and the second has got to the creation of its own.
C21_Witness ==
    \E i \in LogIdx, j \in LogIdx :
        /\ i < j
        /\ log[i].token = log[j].token
        /\ LeftStaging(i)
        /\ Tried(log[j].trace, "mkdir_oldroot")
        /\ log[j].result = ErrOf("mkdir_oldroot")
        /\ OldrootRelative(workerDir, log[i].token) \in entries

\* The staging directory of the call in progress, by its path on the host.
Staging == OldrootRelative(workerDir, token)

\* The completed call the step has added to the log.
Returned == log'[Len(log')]

\* C22: isolation never deletes a directory that existed before the call.  The
\* only entry a step creates is the staging directory, by the mkdir of step 5 and
\* only when nothing has that name; the only entry a step removes is that same
\* directory, by the rmdir of step 9 of the call that created it, addressed as
\* <worker_dir>/oldroot-<token> before the root swap and as /oldroot-<token>
\* after it.  When an entry with the staging name exists already, the call fails
\* at the creation of the staging directory, before any root swap, unmount or
\* removal.
C22_RemovesOnlyOwnStaging ==
    [][ /\ entries' # entries =>
              \/ /\ pc = "mkdir_oldroot"
                 /\ Staging \notin entries
                 /\ entries' = entries \cup { Staging }
              \/ /\ pc = "rmdir"
                 /\ Did(trace, "mkdir_oldroot")
                 /\ token' = token
                 /\ Resolve(kern, OldrootAbsolute(token)) = Staging
                 /\ entries' = entries \ { Staging }
        /\ pc \in { "mkdir_oldroot", "pivot_root" } =>
              Resolve(kern, OldrootRelative(workerDir, token)) = Staging
        /\ (pc = "mkdir_oldroot" /\ Staging \in entries) =>
              /\ pc' = "idle"
              /\ Returned.result = ErrOf("mkdir_oldroot")
              /\ \A step \in { "pivot_root", "umount2", "rmdir" } :
                     ~Tried(Returned.trace, step)
              /\ entries' = entries
              /\ kern' = kern
      ]_vars

\* One attempt has failed at the creation of its staging directory because the
\* name was taken, and the entry of that name is still there; another attempt has
\* created its staging directory and removed it.
C22_Witness ==
    \E i \in LogIdx, j \in LogIdx :
        /\ log[i].result = ErrOf("mkdir_oldroot")
        /\ OldrootRelative(workerDir, log[i].token) \in entries
        /\ log[j].result = "Ok"
        /\ Did(log[j].trace, "mkdir_oldroot")
        /\ Did(log[j].trace, "rmdir")
        /\ OldrootRelative(workerDir, log[j].token) \notin entries

(***************************************************************************)
(* Properties of LandlockStatus::from_ruleset_status, checked under        *)
(* SpecStatus.                                                             *)
(***************************************************************************)
\* How much a status enforces: nothing, some of the rights, all of them.
StrengthOfName(v) ==
    CASE v = "FullyEnforced"     -> 2
      [] v = "PartiallyEnforced" -> 1
      [] v = "NotEnforced"       -> 0
      [] v = "Unavailable"       -> 0

\* C23: an enforcement status is never upgraded in translation.
\* from_ruleset_status is total over the statuses of the kernel interface, maps
\* FullyEnforced, PartiallyEnforced and NotEnforced each to the LandlockStatus of
\* the same name, and never yields Unavailable or a status stronger than its
\* argument.
C23_NeverUpgraded ==
    /\ \A rs \in RulesetStatuses : FromRulesetStatus(rs) \in LandlockStatuses
    /\ reported # NotReported =>
           /\ reported.from \in RulesetStatuses
           /\ reported.status \in LandlockStatuses
           /\ reported.status.landlock = reported.from
           /\ reported.status.landlock # "Unavailable"
           /\ StrengthOfName(reported.status.landlock) <= StrengthOfName(reported.from)

\* A partially enforced status has been translated, after a probe of this
\* process has returned.
C23_Witness ==
    /\ reported.from = "PartiallyEnforced"
    /\ reported.status = [ landlock |-> "PartiallyEnforced" ]
    /\ \E c \in Threads : ret[c] \in RulesetStatuses

(***************************************************************************)
(* Properties of the input check of                                        *)
(* unshare_user_namespace_and_change_root, checked under Spec.             *)
(***************************************************************************)
\* The worker directory path is valid UTF-8.
ValidUtf8Path == ToStr(workerDir).some

\* The step is the start of a call of unshare_user_namespace_and_change_root.
CallStarts == pc = "idle" /\ (pc' # "idle" \/ Len(log') = Len(log) + 1)

\* C24: input rejection happens before any irreversible operation.  When the
\* worker directory path is not valid UTF-8, a call returns the error of the path
\* at once: it has attempted no system call, and namespaces, mounts, root,
\* working directory and directory entries are as before the call, as is the
\* rest of the process.
C24_RejectsBeforeChange ==
    [][ (CallStarts /\ ~ValidUtf8Path) =>
            /\ pc' = "idle"
            /\ Len(log') = Len(log) + 1
            /\ Returned.result = ErrNotUtf8
            /\ Returned.trace = << >>
            /\ kern' = kern
            /\ entries' = entries
            /\ workerDir' = workerDir
            /\ llVars' = llVars
            /\ envVars' = envVars
      ]_vars

\* A call on a path that is not valid UTF-8 has returned, in a process that is
\* still in the namespaces and on the root it was started with.
C24_Witness ==
    /\ ~ValidUtf8Path
    /\ \E i \in LogIdx : log[i].result = ErrNotUtf8 /\ log[i].trace = << >>
    /\ kern.userNs = 0
    /\ kern.mntNs = 0
    /\ kern.root = << >>
    /\ pc = "idle"

(***************************************************************************)
(* Properties of migrate_page and migrate_overweight, checked under        *)
(* SpecDmp.                                                                *)
(***************************************************************************)
\* The message fits the bound of the sink.
Fits(e) == Len(e.msg) <= MaxMessageLen

\* The bytes of the messages of a page that fit, in the order of the page.
FittingOf(page) ==
    LET fitting == SelectSeq(page, Fits)
    IN  [ k \in 1..Len(fitting) |-> fitting[k].msg ]

\* What the sink has received since the last call started.
Delivered == SubSeq(sink, Len(migrated.sinkBefore) + 1, Len(sink))

\* C25: migrate_page(p) drains page p: after the call nothing is stored under p
\* in Pages, and the sink has received, after what it had, exactly the messages
\* of the page that fit its bound, each once and in the order of the page; a
\* message that is too long is not delivered and does not keep the later ones
\* from being delivered.  migrate_overweight(i) removes entry i and delivers it
\* at most once: not at all when the entry is absent or too long.
C25_Drains ==
    /\ migrated.kind # "none" =>
           /\ Len(sink) >= Len(migrated.sinkBefore)
           /\ SubSeq(sink, 1, Len(migrated.sinkBefore)) = migrated.sinkBefore
    /\ migrated.kind = "page" =>
           /\ migrated.index \notin DOMAIN pages
           /\ Delivered = FittingOf(migrated.taken)
           /\ \A m \in 1..Len(migrated.taken) :
                  ~Fits(migrated.taken[m]) =>
                      /\ \A k \in 1..Len(Delivered) : Delivered[k] # migrated.taken[m].msg
                      /\ \A n \in (m + 1)..Len(migrated.taken) :
                             Fits(migrated.taken[n]) =>
                                 \E k \in 1..Len(Delivered) :
                                     Delivered[k] = migrated.taken[n].msg
    /\ migrated.kind = "overweight" =>
           /\ migrated.index \notin DOMAIN overweight
           /\ Len(Delivered) <= 1
           /\ Delivered = IF migrated.taken # << >> /\ Fits(migrated.taken[1])
                          THEN << migrated.taken[1].msg >> ELSE << >>

\* A page whose first message is too long and whose second message fits has
\* been migrated into a sink that had received a message before: the second
\* message is the last one the sink has received.
C25_Witness ==
    /\ migrated.kind = "page"
    /\ migrated.sinkBefore # << >>
    /\ Len(migrated.taken) >= 2
    /\ ~Fits(migrated.taken[1])
    /\ Fits(migrated.taken[2])
    /\ Len(migrated.taken[2].msg) > 0
    /\ sink[Len(sink)] = migrated.taken[Len(migrated.taken)].msg
    /\ migrated.index \notin DOMAIN pages
    /\ overweight # EmptyMap

====
